---- MODULE Spec2Model ----
(***************************************************************************)
(* Model of pkg/cmd/taskrun/log_reader.go (tkn taskrun logs).              *)
(*                                                                         *)
(*   Spec      the background goroutine of LogReader.readStepsLogs and the *)
(*             consumer of its two unbuffered channels                     *)
(*   FairSpec  Spec with a scheduler that runs the goroutine, a consumer   *)
(*             that keeps receiving and step sources that close            *)
(*   WaitSpec  LogReader.waitUntilPodNameAvailable                         *)
(*   FilterSpec  filterSteps applied to a pod, allSteps and a wanted list  *)
(*   ReadSpec  LogReader.Read up to its return                             *)
(***************************************************************************)
EXTENDS Integers, Sequences, FiniteSets, TLC

\* ---------------------------------------------------------------- bounds
MaxSteps == 2
MaxItems == 2
MaxEvents == 2
MaxConds == 1
MaxInit == 2
MaxWanted == 2

\* ------------------------------------------------------------- constants
\* lr.waitUntilPodNameAvailable(10): the timeout, in seconds
TimeoutSeconds == 10

Nil == "nil"
\* a nil *v1alpha1.TaskRun, a nil error, and no result yet (records and
\* tuples, as the values they stand in for are)
NilRun == [nil |-> TRUE]
NoErr == << >>
NoResult == [returned |-> FALSE]
\* the goroutine is not blocked in a send
NoSend == [sending |-> FALSE]
\* no call in progress: no arguments
NoCall == [called |-> FALSE]
TaskName == "task"
EOFLOG == "EOFLOG"

\* what a container's log stream may carry, the text "EOFLOG" included
LogLines == {"ok", EOFLOG}
StreamErrs == {"read-err"}
OpenErrs == {"open-err"}
StatusErrs == {"exit-1"}

\* corev1.ContainerState, by the member that is set: Waiting, Terminated
\* (Running reads as Terminated does: Waiting is nil), or none ("zero", the
\* zero value that a container without a status entry gets).
ContainerStates == {"zero", "waiting", "terminated"}

AllStepNames == <<"build", "test", "deploy", "verify", "publish", "notify">>

VARIABLES
    \* readStepsLogs
    steps,      \* the resolved steps, []*step
    follow,     \* the follow argument
    idx,        \* position of the for loop in steps (1-based)
    pc,         \* position of the goroutine
    podC,       \* local podC: "open" or Nil
    perrC,      \* local perrC: "open" or Nil
    pending,    \* the value of the send the goroutine is blocked in
    logOut,     \* what the consumer has received from logC
    errOut,     \* what the consumer has received from errC
    logClosed,  \* close(logC) has run
    errClosed,  \* close(errC) has run
    hist,       \* per step: what the loop did with it (history)
    \* waitUntilPodNameAvailable
    wpc,        \* position of the Waiter
    run,        \* the outer variable run (line 272)
    first,      \* the variable first (line 267)
    lastEv,     \* the run of the last watch event received (history)
    nEvents,    \* watch events received (history)
    watchOpens, \* Watch() calls that returned a subscription (history)
    watchStops, \* watchRun.Stop() calls (history)
    timers,     \* time.After timers created (history)
    sinceTimer, \* seconds since the pending timer was created
    sinceStart, \* seconds since the first timer was created
    timedOut,   \* the timeout case of the select was taken (history)
    wres,       \* the returned (run, err)
    \* filterSteps
    fpc,        \* "call" before filterSteps has run, "done" after
    fin,        \* its arguments: pod, allSteps, stepsGiven
    fres,       \* its result
    \* Read
    rpc,        \* position of Read
    cfg,        \* the LogReader's fields Follow, AllSteps, Steps, Stream
    tr,         \* the run that Read's Get returned
    task,       \* lr.Task
    sideOut,    \* what was written to lr.Stream.Err
    goroutines, \* goroutines started by readStepsLogs (history)
    rres        \* the returned (logC, errC, err)

muxVars == <<steps, follow, idx, pc, podC, perrC, pending, logOut, errOut,
             logClosed, errClosed, hist>>
waitVars == <<wpc, run, first, lastEv, nEvents, watchOpens, watchStops,
              timers, sinceTimer, sinceStart, timedOut, wres>>
vars == <<steps, follow, idx, pc, podC, perrC, pending, logOut, errOut,
          logClosed, errClosed, hist,
          wpc, run, first, lastEv, nEvents, watchOpens, watchStops,
          timers, sinceTimer, sinceStart, timedOut, wres,
          fpc, fin, fres, rpc, cfg, tr, task, sideOut, goroutines, rres>>
filterVars == <<fpc, fin, fres>>
readVars == <<rpc, cfg, tr, task, sideOut, goroutines, rres>>

\* ------------------------------------------------------------------ step
\* sequences over S of length 0..n
RECURSIVE SeqsUpTo(_, _)
SeqsUpTo(S, n) ==
    IF n = 0 THEN {<< >>}
    ELSE LET shorter == SeqsUpTo(S, n - 1)
         IN  shorter \cup {Append(s, x) : s \in {t \in shorter : Len(t) = n - 1}, x \in S}

\* type step struct { name, container, state }
MkStep(i, st) ==
    [name |-> AllStepNames[i], container |-> "step-" \o AllStepNames[i], state |-> st]

StepLists ==
    {[i \in 1..Len(sts) |-> MkStep(i, sts[i])] : sts \in SeqsUpTo(ContainerStates, MaxSteps)}

\* mutant of hasStarted: reads Terminated instead of Waiting
hasStartedTerminated(s) == s.state = "terminated"

\* func (s *step) hasStarted() bool { return s.state.Waiting == nil }
hasStarted(s) == s.state # "waiting"

\* ------------------------------------------------------------- records
\* mutant of LogRecord: tagged with the container's name
LogRecordContainer(s, l) == [Task |-> TaskName, Step |-> s.container, Log |-> l]

\* log.Log{Task: lr.Task, Step: step.name, Log: l.Log}
LogRecord(s, l) == [Task |-> TaskName, Step |-> s.name, Log |-> l]

\* log.Log{Task: lr.Task, Step: step.name, Log: "EOFLOG"}
SentinelRecord(s) == [Task |-> TaskName, Step |-> s.name, Log |-> EOFLOG]

\* fmt.Errorf("error in getting logs for step %s: %s", step.name, err)
OpenErrRecord(s, e) == [Error |-> <<"error in getting logs for step ", s.name, ": ", e>>]

\* fmt.Errorf("failed to get logs for %s: %s", step.name, e)
StreamErrRecord(s, e) == [Error |-> <<"failed to get logs for ", s.name, ": ", e>>]

\* errC <- err with the error of container.Status(), as it is
StatusErrRecord(s, e) == [Error |-> <<e>>]

\* ----------------------------------------------------- readStepsLogs
HistZero ==
    [skipped |-> FALSE, opens |-> 0, openFailed |-> FALSE, statusQueries |-> 0,
     statusFailed |-> FALSE, lines |-> << >>, errs |-> 0]

\* what the sources of the steps 1..n have delivered so far: the model lets
\* the sources of one read deliver at most MaxItems lines and errors
RECURSIVE Delivered(_)
Delivered(n) ==
    IF n = 0 THEN 0 ELSE Len(hist[n].lines) + hist[n].errs + Delivered(n - 1)

Bump(i, field, val) == [hist EXCEPT ![i] = [@ EXCEPT ![field] = val]]

\* logC := make(chan log.Log); errC := make(chan error); go func() {...}()
\* The state when readStepsLogs returns: the goroutine is about to start.
MuxStart(ss, f) ==
    /\ steps = ss
    /\ follow = f
    /\ idx = 1
    /\ pc = "for"
    /\ podC = Nil
    /\ perrC = Nil
    /\ pending = NoSend
    /\ logOut = << >>
    /\ errOut = << >>
    /\ logClosed = FALSE
    /\ errClosed = FALSE
    /\ hist = [i \in 1..Len(ss) |-> HistZero]

\* if !follow && !step.hasStarted() { continue }
ShouldSkip(f, s) == ~f /\ ~hasStarted(s)

\* mutant of LoopCond: && instead of ||
LoopCondBoth(p, e) == IF p # Nil /\ e # Nil THEN "select" ELSE "status"

\* for podC != nil || perrC != nil
LoopCond(p, e) == IF p # Nil \/ e # Nil THEN "select" ELSE "status"

\* mutant of AfterOpenErr: return instead of continue
AfterOpenErrReturn(i) == [pc |-> "exit", idx |-> i]

\* mutant of AfterStatusErr: the next step instead of return
AfterStatusErrContinue(i) == [pc |-> "for", idx |-> i + 1]

\* mutant of AfterStatusErr: the goroutine ends without the deferred closes
AfterStatusErrNoClose(i) == [pc |-> "done", idx |-> i]

\* mutant of AfterStreamErr: an error of the error source ends the loop
AfterStreamErrReturn(i, p, e) == [pc |-> "exit", idx |-> i]

\* errC <- fmt.Errorf("failed to get logs ..."): the select is left and the
\* loop condition is read again, with podC and perrC as they were
AfterStreamErr(i, p, e) == [pc |-> LoopCond(p, e), idx |-> i]

\* mutant of BlockedSend: the goroutine goes on without a receiver
BlockedSendNoWait(k) == "select"

\* logC, errC are unbuffered (make(chan ...) without a size): the goroutine
\* stays in the send statement k until a receiver takes the value
BlockedSend(k) == k

\* mutant of DeferredRun: the deferred calls run in the order of the defers
DeferredRunInOrder == <<"logC", "errC">>

\* defer close(logC); defer close(errC): deferred calls run last-in
\* first-out, so close(errC) runs first
DeferredRun == <<"errC", "logC">>

\* the deferred call that runs at position p of the exit
NextDeferred(p) == DeferredRun[IF p = "exit" THEN 1 ELSE 2]

\* errC <- fmt.Errorf("error in getting logs ..."); continue
AfterOpenErr(i) == [pc |-> "for", idx |-> i + 1]

\* errC <- err; return
AfterStatusErr(i) == [pc |-> "exit", idx |-> i]

\* container.Status() returned nil: the next iteration of the for loop
AfterStatusOk(i) == [pc |-> "for", idx |-> i + 1]

\* the for loop has run out of steps: the deferred closes run
LoopExit ==
    /\ pc = "for"
    /\ idx > Len(steps)
    /\ pc' = "exit"
    /\ UNCHANGED <<steps, follow, idx, podC, perrC, pending, logOut, errOut,
                   logClosed, errClosed, hist>>
    /\ UNCHANGED waitVars
    /\ UNCHANGED <<filterVars, readVars>>

SkipStep ==
    /\ pc = "for"
    /\ idx <= Len(steps)
    /\ ShouldSkip(follow, steps[idx])
    /\ idx' = idx + 1
    /\ hist' = Bump(idx, "skipped", TRUE)
    /\ UNCHANGED <<steps, follow, pc, podC, perrC, pending, logOut, errOut,
                   logClosed, errClosed>>
    /\ UNCHANGED waitVars
    /\ UNCHANGED <<filterVars, readVars>>

\* podC, perrC, err := container.LogReader(follow).Read() with err == nil
OpenStep ==
    /\ pc = "for"
    /\ idx <= Len(steps)
    /\ ~ShouldSkip(follow, steps[idx])
    /\ podC' = "open"
    /\ perrC' = "open"
    /\ pc' = LoopCond("open", "open")
    /\ hist' = Bump(idx, "opens", hist[idx].opens + 1)
    /\ UNCHANGED <<steps, follow, idx, pending, logOut, errOut, logClosed, errClosed>>
    /\ UNCHANGED waitVars
    /\ UNCHANGED <<filterVars, readVars>>

\* ... with err != nil: the goroutine blocks in errC <- ...
OpenStepFails ==
    /\ pc = "for"
    /\ idx <= Len(steps)
    /\ ~ShouldSkip(follow, steps[idx])
    /\ \E e \in OpenErrs : pending' = OpenErrRecord(steps[idx], e)
    /\ pc' = BlockedSend("sendOpenErr")
    /\ hist' = Bump(idx, "openFailed", TRUE)
    /\ UNCHANGED <<steps, follow, idx, podC, perrC, logOut, errOut, logClosed, errClosed>>
    /\ UNCHANGED waitVars
    /\ UNCHANGED <<filterVars, readVars>>

\* case l, ok := <-podC with ok: the goroutine blocks in logC <- log.Log{...}
RecvLine ==
    /\ pc = "select"
    /\ podC # Nil
    /\ Delivered(Len(steps)) < MaxItems
    /\ \E l \in LogLines :
         /\ pending' = LogRecord(steps[idx], l)
         /\ hist' = Bump(idx, "lines", Append(hist[idx].lines, l))
    /\ pc' = BlockedSend("sendLog")
    /\ UNCHANGED <<steps, follow, idx, podC, perrC, logOut, errOut, logClosed, errClosed>>
    /\ UNCHANGED waitVars
    /\ UNCHANGED <<filterVars, readVars>>

\* case l, ok := <-podC with !ok: podC = nil; logC <- sentinel; continue
RecvLogClosed ==
    /\ pc = "select"
    /\ podC # Nil
    /\ podC' = Nil
    /\ pending' = SentinelRecord(steps[idx])
    /\ pc' = BlockedSend("sendEOF")
    /\ UNCHANGED <<steps, follow, idx, perrC, logOut, errOut, logClosed, errClosed, hist>>
    /\ UNCHANGED waitVars
    /\ UNCHANGED <<filterVars, readVars>>

\* case e, ok := <-perrC with ok: the goroutine blocks in errC <- ...
RecvErr ==
    /\ pc = "select"
    /\ perrC # Nil
    /\ Delivered(Len(steps)) < MaxItems
    /\ \E e \in StreamErrs : pending' = StreamErrRecord(steps[idx], e)
    /\ hist' = Bump(idx, "errs", hist[idx].errs + 1)
    /\ pc' = BlockedSend("sendErr")
    /\ UNCHANGED <<steps, follow, idx, podC, perrC, logOut, errOut, logClosed, errClosed>>
    /\ UNCHANGED waitVars
    /\ UNCHANGED <<filterVars, readVars>>

\* case e, ok := <-perrC with !ok: perrC = nil; continue
RecvErrClosed ==
    /\ pc = "select"
    /\ perrC # Nil
    /\ perrC' = Nil
    /\ pc' = LoopCond(podC, Nil)
    /\ UNCHANGED <<steps, follow, idx, podC, pending, logOut, errOut, logClosed,
                   errClosed, hist>>
    /\ UNCHANGED waitVars
    /\ UNCHANGED <<filterVars, readVars>>

\* if err := container.Status(); err != nil { errC <- err; return }
StatusOk ==
    /\ pc = "status"
    /\ hist' = Bump(idx, "statusQueries", hist[idx].statusQueries + 1)
    /\ pc' = AfterStatusOk(idx).pc
    /\ idx' = AfterStatusOk(idx).idx
    /\ UNCHANGED <<steps, follow, podC, perrC, pending, logOut, errOut, logClosed, errClosed>>
    /\ UNCHANGED waitVars
    /\ UNCHANGED <<filterVars, readVars>>

StatusFails ==
    /\ pc = "status"
    /\ hist' = [hist EXCEPT ![idx] =
                  [@ EXCEPT !.statusQueries = @ + 1, !.statusFailed = TRUE]]
    /\ \E e \in StatusErrs : pending' = StatusErrRecord(steps[idx], e)
    /\ pc' = BlockedSend("sendStatusErr")
    /\ UNCHANGED <<steps, follow, idx, podC, perrC, logOut, errOut, logClosed, errClosed>>
    /\ UNCHANGED waitVars
    /\ UNCHANGED <<filterVars, readVars>>

\* The consumer receives from logC: the blocked send completes.
ConsumeLog ==
    /\ pc \in {"sendLog", "sendEOF"}
    /\ logOut' = Append(logOut, [at |-> idx, rec |-> pending])
    /\ pending' = NoSend
    /\ pc' = LoopCond(podC, perrC)
    /\ UNCHANGED <<steps, follow, idx, podC, perrC, errOut, logClosed, errClosed, hist>>
    /\ UNCHANGED waitVars
    /\ UNCHANGED <<filterVars, readVars>>

\* The consumer receives from errC: the blocked send completes.
ConsumeErr ==
    /\ pc \in {"sendErr", "sendOpenErr", "sendStatusErr"}
    /\ errOut' = Append(errOut, [at |-> idx, kind |-> pc, rec |-> pending])
    /\ pending' = NoSend
    /\ LET to == CASE pc = "sendErr" -> AfterStreamErr(idx, podC, perrC)
                   [] pc = "sendOpenErr" -> AfterOpenErr(idx)
                   [] pc = "sendStatusErr" -> AfterStatusErr(idx)
       IN  pc' = to.pc /\ idx' = to.idx
    /\ UNCHANGED <<steps, follow, podC, perrC, logOut, logClosed, errClosed, hist>>
    /\ UNCHANGED waitVars
    /\ UNCHANGED <<filterVars, readVars>>

\* defer close(errC): deferred last, so it runs first
CloseErrC ==
    /\ pc \in {"exit", "exit2"}
    /\ NextDeferred(pc) = "errC"
    /\ errClosed' = TRUE
    /\ pc' = (IF pc = "exit" THEN "exit2" ELSE "done")
    /\ UNCHANGED <<steps, follow, idx, podC, perrC, pending, logOut, errOut,
                   logClosed, hist>>
    /\ UNCHANGED waitVars
    /\ UNCHANGED <<filterVars, readVars>>

\* defer close(logC)
CloseLogC ==
    /\ pc \in {"exit", "exit2"}
    /\ NextDeferred(pc) = "logC"
    /\ logClosed' = TRUE
    /\ pc' = (IF pc = "exit" THEN "exit2" ELSE "done")
    /\ UNCHANGED <<steps, follow, idx, podC, perrC, pending, logOut, errOut,
                   errClosed, hist>>
    /\ UNCHANGED waitVars
    /\ UNCHANGED <<filterVars, readVars>>

Worker ==
    \/ LoopExit
    \/ SkipStep
    \/ OpenStep
    \/ OpenStepFails
    \/ StatusOk
    \/ StatusFails
    \/ CloseErrC
    \/ CloseLogC

Sources ==
    \/ RecvLine
    \/ RecvLogClosed
    \/ RecvErr
    \/ RecvErrClosed

Consumer ==
    \/ ConsumeLog
    \/ ConsumeErr

\* the Waiter at rest, for the specifications that do not run it
WaitIdle ==
    /\ wpc = "idle"
    /\ run = NilRun
    /\ first = TRUE
    /\ lastEv = NilRun
    /\ nEvents = 0
    /\ watchOpens = 0
    /\ watchStops = 0
    /\ timers = 0
    /\ sinceTimer = 0
    /\ sinceStart = 0
    /\ timedOut = FALSE
    /\ wres = NoResult

\* filterSteps and Read at rest, for the specifications that do not run them
FilterIdle ==
    /\ fpc = "idle"
    /\ fin = NoCall
    /\ fres = << >>

ReadIdle ==
    /\ rpc = "idle"
    /\ cfg = NoCall
    /\ tr = NilRun
    /\ task = ""
    /\ sideOut = << >>
    /\ goroutines = 0
    /\ rres = NoResult

Init ==
    /\ \E ss \in StepLists, f \in BOOLEAN : MuxStart(ss, f)
    /\ WaitIdle
    /\ FilterIdle
    /\ ReadIdle

Next ==
    \/ LoopExit
    \/ SkipStep
    \/ OpenStep
    \/ OpenStepFails
    \/ RecvLine
    \/ RecvLogClosed
    \/ RecvErr
    \/ RecvErrClosed
    \/ StatusOk
    \/ StatusFails
    \/ ConsumeLog
    \/ ConsumeErr
    \/ CloseErrC
    \/ CloseLogC

Spec == Init /\ [][Next]_vars

\* The Go scheduler runs a runnable goroutine; the consumer keeps receiving
\* from both channels; a step's sources deliver what they have and close.
FairSpec ==
    /\ Spec
    /\ WF_vars(Worker)
    /\ WF_vars(Sources)
    /\ WF_vars(Consumer)

\* ------------------------------------------- waitUntilPodNameAvailable
\* v1beta1.Conditions: the status and the message of each condition
CondStatuses == {"True", "False", "Unknown"}
Conditions == {[Status |-> st, Message |-> "boom"] : st \in CondStatuses}

\* a v1alpha1.TaskRun as far as the Waiter reads it
Runs == {[podName |-> p, conds |-> c] :
           p \in {"", "pod-1"}, c \in SeqsUpTo(Conditions, MaxConds)}

GetErr == <<"taskruns not found">>
WatchErr == <<"watch refused">>

\* fmt.Errorf("task %s create has not started yet or pod for task not yet available", lr.Task)
TimeoutErr ==
    <<"task ", TaskName, " create has not started yet or pod for task not yet available">>

\* fmt.Errorf("task %s has failed: %s", taskName, trConditions[0].Message)
FailedErr(taskName, msg) == <<"task ", taskName, " has failed: ", msg>>

\* mutant of hasTaskRunFailed: compares with ConditionTrue
hasTaskRunFailedTrue(trConditions, taskName) ==
    IF Len(trConditions) # 0 /\ trConditions[1].Status = "True"
    THEN FailedErr(taskName, trConditions[1].Message)
    ELSE NoErr

\* func hasTaskRunFailed(trConditions, taskName) error
hasTaskRunFailed(trConditions, taskName) ==
    IF Len(trConditions) # 0 /\ trConditions[1].Status = "False"
    THEN FailedErr(taskName, trConditions[1].Message)
    ELSE NoErr

\* mutant of PodNameAvailable: the fast path is never taken
PodNameAvailableNever(r) == FALSE

\* mutant of EventResult: the outer run is returned
EventResultOuter(outer, ev) == outer

\* if run.Status.PodName != ""
PodNameAvailable(r) == r.podName # ""

\* return run, nil in the event case: run is the event's run, which
\* shadows the outer run
EventResult(outer, ev) == ev

\* hasTaskRunFailed(run.Status.Conditions, lr.Task) in the timeout case:
\* run is the outer run, the one the initial Get returned
TimeoutCheckedRun(outer, ev) == outer

WaitStart ==
    /\ wpc = "get"
    /\ run = NilRun
    /\ first = TRUE
    /\ lastEv = NilRun
    /\ nEvents = 0
    /\ watchOpens = 0
    /\ watchStops = 0
    /\ timers = 0
    /\ sinceTimer = 0
    /\ sinceStart = 0
    /\ timedOut = FALSE
    /\ wres = NoResult

\* readStepsLogs at rest, for the specifications that do not run it
MuxIdle ==
    /\ steps = << >>
    /\ follow = TRUE
    /\ idx = 1
    /\ pc = "idle"
    /\ podC = Nil
    /\ perrC = Nil
    /\ pending = NoSend
    /\ logOut = << >>
    /\ errOut = << >>
    /\ logClosed = FALSE
    /\ errClosed = FALSE
    /\ hist = << >>

\* run, err := tkn...Get(lr.Run, ...) with err == nil
GetRun ==
    /\ wpc = "get"
    /\ \E r \in Runs : run' = r
    /\ wpc' = "check"
    /\ UNCHANGED <<first, lastEv, nEvents, watchOpens, watchStops, timers,
                   sinceTimer, sinceStart, timedOut, wres>>
    /\ UNCHANGED muxVars
    /\ UNCHANGED <<filterVars, readVars>>

\* ... with err != nil: return nil, err
GetRunFails ==
    /\ wpc = "get"
    /\ wres' = [run |-> NilRun, err |-> GetErr]
    /\ wpc' = "returned"
    /\ UNCHANGED <<run, first, lastEv, nEvents, watchOpens, watchStops, timers,
                   sinceTimer, sinceStart, timedOut>>
    /\ UNCHANGED muxVars
    /\ UNCHANGED <<filterVars, readVars>>

\* if run.Status.PodName != "" { return run, nil }
FastPath ==
    /\ wpc = "check"
    /\ PodNameAvailable(run)
    /\ wres' = [run |-> run, err |-> NoErr]
    /\ wpc' = "returned"
    /\ UNCHANGED <<run, first, lastEv, nEvents, watchOpens, watchStops, timers,
                   sinceTimer, sinceStart, timedOut>>
    /\ UNCHANGED muxVars
    /\ UNCHANGED <<filterVars, readVars>>

\* watchRun, err := tkn...Watch(opts) with err == nil; the for loop is
\* entered and its select creates the first timer
OpenWatch ==
    /\ wpc = "check"
    /\ ~PodNameAvailable(run)
    /\ watchOpens' = watchOpens + 1
    /\ timers' = timers + 1
    /\ sinceTimer' = 0
    /\ sinceStart' = 0
    /\ wpc' = "select"
    /\ UNCHANGED <<run, first, lastEv, nEvents, watchStops, timedOut, wres>>
    /\ UNCHANGED muxVars
    /\ UNCHANGED <<filterVars, readVars>>

\* ... with err != nil: return nil, err
OpenWatchFails ==
    /\ wpc = "check"
    /\ ~PodNameAvailable(run)
    /\ wres' = [run |-> NilRun, err |-> WatchErr]
    /\ wpc' = "returned"
    /\ UNCHANGED <<run, first, lastEv, nEvents, watchOpens, watchStops, timers,
                   sinceTimer, sinceStart, timedOut>>
    /\ UNCHANGED muxVars
    /\ UNCHANGED <<filterVars, readVars>>

\* a second passes while the Waiter is blocked in the select
Tick ==
    /\ wpc = "select"
    /\ sinceTimer < TimeoutSeconds
    /\ sinceTimer' = sinceTimer + 1
    /\ sinceStart' = sinceStart + 1
    /\ UNCHANGED <<wpc, run, first, lastEv, nEvents, watchOpens, watchStops,
                   timers, timedOut, wres>>
    /\ UNCHANGED muxVars
    /\ UNCHANGED <<filterVars, readVars>>

\* case event := <-watchRun.ResultChan() with a run whose pod name is set:
\* watchRun.Stop(); return run, nil
EventWithPod ==
    /\ wpc = "select"
    /\ nEvents < MaxEvents
    /\ \E ev \in Runs :
         /\ ev.podName # ""
         /\ lastEv' = ev
         /\ wres' = [run |-> EventResult(run, ev), err |-> NoErr]
    /\ nEvents' = nEvents + 1
    /\ watchStops' = watchStops + 1
    /\ wpc' = "returned"
    /\ UNCHANGED <<run, first, watchOpens, timers, sinceTimer, sinceStart, timedOut>>
    /\ UNCHANGED muxVars
    /\ UNCHANGED <<filterVars, readVars>>

\* ... with a run whose pod name is empty: first = false, and the next
\* iteration's select creates a new timer with time.After
EventWithoutPod ==
    /\ wpc = "select"
    /\ nEvents < MaxEvents
    /\ \E ev \in Runs :
         /\ ev.podName = ""
         /\ lastEv' = ev
    /\ nEvents' = nEvents + 1
    /\ first' = FALSE
    /\ timers' = timers + 1
    /\ sinceTimer' = 0
    /\ UNCHANGED <<wpc, run, watchOpens, watchStops, sinceStart, timedOut, wres>>
    /\ UNCHANGED muxVars
    /\ UNCHANGED <<filterVars, readVars>>

\* ... with the channel closed, or an event whose Object is no *TaskRun:
\* event.Object.(*v1alpha1.TaskRun) panics
EventWithoutRun ==
    /\ wpc = "select"
    /\ wpc' = "panic"
    /\ UNCHANGED <<run, first, lastEv, nEvents, watchOpens, watchStops, timers,
                   sinceTimer, sinceStart, timedOut, wres>>
    /\ UNCHANGED muxVars
    /\ UNCHANGED <<filterVars, readVars>>

\* case <-time.After(timeout * time.Second)
Timeout ==
    /\ wpc = "select"
    /\ sinceTimer >= TimeoutSeconds
    /\ watchStops' = watchStops + 1
    /\ timedOut' = TRUE
    /\ LET err == hasTaskRunFailed(TimeoutCheckedRun(run, lastEv).conds, TaskName)
       IN  wres' = [run |-> NilRun, err |-> IF err # NoErr THEN err ELSE TimeoutErr]
    /\ wpc' = "returned"
    /\ UNCHANGED <<run, first, lastEv, nEvents, watchOpens, timers, sinceTimer,
                   sinceStart>>
    /\ UNCHANGED muxVars
    /\ UNCHANGED <<filterVars, readVars>>

WaitInit == WaitStart /\ MuxIdle /\ FilterIdle /\ ReadIdle

WaitNext ==
    \/ GetRun
    \/ GetRunFails
    \/ FastPath
    \/ OpenWatch
    \/ OpenWatchFails
    \/ Tick
    \/ EventWithPod
    \/ EventWithoutPod
    \/ EventWithoutRun
    \/ Timeout

WaitSpec == WaitInit /\ [][WaitNext]_vars

\* ============================================================= claims
StepIdx == 1..Len(steps)

\* the records received from logC / errC that step i's iteration sent
LogsAt(i) == SelectSeq(logOut, LAMBDA r : r.at = i)
ErrsAt(i) == SelectSeq(errOut, LAMBDA r : r.at = i)
ErrsOfKind(i, k) == SelectSeq(errOut, LAMBDA r : r.at = i /\ r.kind = k)

\* the loop has left the for statement
Exited == pc \in {"exit", "exit2", "done"}

\* the loop has entered step i's iteration
Visited(i) == hist[i].skipped \/ hist[i].opens > 0 \/ hist[i].openFailed

\* no step between i and j (exclusive) aborted the loop
NoAbortBetween(i, j) == \A k \in StepIdx : (i < k /\ k < j) => ~hist[k].statusFailed

\* the run's first status condition is False
FirstCondFalse(r) == Len(r.conds) > 0 /\ r.conds[1].Status = "False"

\* C1: on every exit path of the goroutine both logC and errC are closed,
\* and with a consumer that keeps receiving and sources that close, the
\* goroutine reaches its end: both channels are eventually closed.
C1_BothChannelsClosed ==
    /\ [](pc = "done" => logClosed /\ errClosed)
    /\ <>(pc = "done" /\ logClosed /\ errClosed)

\* C1 witness: the loop was aborted by a failed terminal status and both
\* channels are closed.
C1_Witness ==
    /\ pc = "done"
    /\ logClosed /\ errClosed
    /\ \E i \in StepIdx : hist[i].statusFailed /\ i < Len(steps)

\* C2: a step whose terminal status reports failure gets exactly one Error
\* Record for that failure (the last record of errC), the loop stops at that
\* step, and no later step gets a Log Record, an Error Record, an opened
\* stream, a skip or a status query.
C2_TerminalFailureAborts ==
    \A i \in StepIdx :
        hist[i].statusFailed =>
            /\ idx = i
            /\ pc \in {"sendStatusErr", "exit", "exit2", "done"}
            /\ hist[i].statusQueries = 1
            /\ Len(ErrsOfKind(i, "sendStatusErr")) = (IF Exited THEN 1 ELSE 0)
            /\ Exited => \E e \in StatusErrs :
                   errOut[Len(errOut)] =
                       [at |-> i, kind |-> "sendStatusErr", rec |-> StatusErrRecord(steps[i], e)]
            /\ \A j \in StepIdx :
                   j > i => /\ LogsAt(j) = << >>
                            /\ ErrsAt(j) = << >>
                            /\ hist[j] = HistZero

\* C2 witness: a step other than the last failed, its Error Record was
\* received and the goroutine has ended.
C2_Witness ==
    /\ pc = "done"
    /\ \E i \in StepIdx :
         /\ hist[i].statusFailed
         /\ i < Len(steps)
         /\ Len(ErrsOfKind(i, "sendStatusErr")) = 1
         /\ LogsAt(i) # << >>

\* C3: a step whose stream could not be opened gets exactly one Error
\* Record and no Log Record (no sentinel either), and the loop goes on with
\* the next step: every later step is visited unless a step in between
\* aborts the loop with a failed terminal status.
C3_OpenFailureIsolated ==
    \A i \in StepIdx :
        hist[i].openFailed =>
            /\ hist[i].opens = 0
            /\ hist[i].statusQueries = 0
            /\ LogsAt(i) = << >>
            /\ IF idx = i /\ pc = "sendOpenErr"
               THEN ErrsAt(i) = << >>
               ELSE /\ \E e \in OpenErrs :
                        ErrsAt(i) = << [at |-> i, kind |-> "sendOpenErr",
                                        rec |-> OpenErrRecord(steps[i], e)] >>
                    /\ idx > i
            /\ pc = "done" =>
                   \A j \in StepIdx : (j > i /\ NoAbortBetween(i, j)) => Visited(j)

\* C3 witness: the first step failed to open, the next one was opened and
\* delivered a Log Record, and the goroutine has ended.
C3_Witness ==
    /\ pc = "done"
    /\ Len(steps) >= 2
    /\ hist[1].openFailed
    /\ Len(ErrsAt(1)) = 1
    /\ hist[2].opens = 1
    /\ Len(LogsAt(2)) >= 2

\* both sources of step i have been drained
Drained(i) ==
    /\ hist[i].opens > 0
    /\ \/ idx > i
       \/ idx = i /\ pc \in {"status", "sendStatusErr", "exit", "exit2", "done"}

\* the records of s whose Log is the sentinel text
Sentinels(s) == {k \in 1..Len(s) : s[k].rec.Log = EOFLOG}

\* C4: for every step whose stream was opened, once its sources are
\* drained the Log Records of the step hold exactly one sentinel record
\* ("EOFLOG"), it is the last Log Record of the step, and it precedes every
\* Log Record of a later step.
C4_OneSentinelClosesStep ==
    \A i \in StepIdx :
        Drained(i) =>
            /\ Sentinels(LogsAt(i)) = {Len(LogsAt(i))}
            /\ \A k, m \in 1..Len(logOut) :
                   (logOut[k].at = i /\ logOut[m].at > i) => k < m

\* C5: not following, a step is skipped exactly when its state is waiting;
\* a skipped step gets no record, no opened stream and no status query, and
\* the loop goes on with the next step; following, no step is skipped.
C5_SkipIffWaiting ==
    \A i \in StepIdx :
        /\ Visited(i) => (hist[i].skipped <=> (~follow /\ steps[i].state = "waiting"))
        /\ hist[i].skipped =>
               /\ LogsAt(i) = << >>
               /\ ErrsAt(i) = << >>
               /\ hist[i].opens = 0
               /\ ~hist[i].openFailed
               /\ hist[i].statusQueries = 0
               /\ idx > i
               /\ pc = "done" =>
                      \A j \in StepIdx : (j > i /\ NoAbortBetween(i, j)) => Visited(j)

\* C5 witness: not following, step 1 terminated and was read, step 2 is
\* waiting and was skipped, and the goroutine has ended without an error.
C5_Witness ==
    /\ pc = "done"
    /\ ~follow
    /\ Len(steps) >= 2
    /\ steps[1].state = "terminated" /\ hist[1].opens = 1
    /\ steps[2].state = "waiting" /\ hist[2].skipped
    /\ errOut = << >>
    /\ logOut = << [at |-> 1, rec |-> LogRecord(steps[1], "ok")],
                   [at |-> 1, rec |-> SentinelRecord(steps[1])] >>

\* C6: when the initially fetched run has a pod name, the Waiter returns
\* that run right away: no watch is opened and no timer is started.
C6_FastPathNoWatch ==
    (run # NilRun /\ run.podName # "") =>
        /\ wpc \in {"check", "returned"}
        /\ wpc = "returned" => wres = [run |-> run, err |-> NoErr]
        /\ watchOpens = 0
        /\ watchStops = 0
        /\ timers = 0
        /\ sinceStart = 0
        /\ nEvents = 0

\* C6 witness: the Waiter has returned the fetched run, which has a pod name.
C6_Witness ==
    /\ wpc = "returned"
    /\ run # NilRun
    /\ run.podName # ""
    /\ wres # NoResult
    /\ wres.run = run

\* C7: when the pod name is empty at first and a watch event with a pod
\* name is received, the Waiter stops the subscription and returns the
\* event's run with no error, and the timeout case is not taken.
C7_EventRunReturned ==
    (lastEv # NilRun /\ lastEv.podName # "") =>
        /\ run.podName = ""
        /\ wpc = "returned"
        /\ wres = [run |-> lastEv, err |-> NoErr]
        /\ watchStops = 1
        /\ ~timedOut

\* C7 witness: after an event without a pod name and some waiting, an
\* event with a pod name arrived and its run was returned.
C7_Witness ==
    /\ wpc = "returned"
    /\ nEvents >= 2
    /\ sinceStart > 0
    /\ lastEv # NilRun
    /\ lastEv.podName # ""
    /\ wres.run = lastEv

\* C8: for a run whose first condition is False at the initial fetch and
\* whose pod name stays empty, the Waiter never returns the timeout error:
\* when the timeout fires it returns the 'has failed' error.
C8_FailedNotTimeout ==
    (/\ run # NilRun
     /\ run.podName = ""
     /\ FirstCondFalse(run)
     /\ lastEv # NilRun => lastEv.podName = "") =>
        /\ wres # NoResult => wres.err # TimeoutErr
        /\ timedOut => wres = [run |-> NilRun,
                               err |-> FailedErr(TaskName, run.conds[1].Message)]

\* C8 witness: the run was failed at the fetch, an event without a pod name
\* came, the timeout fired and the 'has failed' error was returned.
C8_Witness ==
    /\ timedOut
    /\ nEvents >= 1
    /\ FirstCondFalse(run)
    /\ wres.err = FailedErr(TaskName, run.conds[1].Message)

\* C9: on timeout the failure check reads the last known run: when the run
\* was not failed at the initial fetch and the last watch event reports its
\* first condition False with the pod name still empty, the Waiter returns
\* the 'has failed' error, not the timeout error.
C9_TimeoutChecksLastEvent ==
    (/\ timedOut
     /\ ~FirstCondFalse(run)
     /\ lastEv # NilRun
     /\ lastEv.podName = ""
     /\ FirstCondFalse(lastEv)) =>
        wres = [run |-> NilRun, err |-> FailedErr(TaskName, lastEv.conds[1].Message)]

\* C10: the wait is bounded by the timeout measured from the start of
\* waiting: the Waiter is never still blocked in its select more than
\* TimeoutSeconds after the wait began, whatever events without a pod name
\* arrive.
C10_WaitBoundedFromStart ==
    wpc = "select" => sinceStart <= TimeoutSeconds

\* ------------------------------------------------- claims C16 .. C20
\* the Error Records the loop has produced for the steps 1..n (received or
\* in the blocked send)
RECURSIVE ErrsProduced(_)
ErrsProduced(n) ==
    IF n = 0 THEN 0
    ELSE hist[n].errs + (IF hist[n].openFailed THEN 1 ELSE 0)
         + (IF hist[n].statusFailed THEN 1 ELSE 0) + ErrsProduced(n - 1)

\* the records of a sequence of received entries
RecsOf(s) == [k \in 1..Len(s) |-> s[k].rec]

\* the Log Records that the lines src of step i's log source call for
LinesAsRecords(i, src) ==
    [k \in 1..Len(src) |-> [Task |-> TaskName, Step |-> steps[i].name, Log |-> src[k]]]

SendingLog == pc \in {"sendLog", "sendEOF"}
SendingErr == pc \in {"sendErr", "sendOpenErr", "sendStatusErr"}

\* C16: steps are processed one at a time in the resolved order: a step's
\* stream is opened only when both sources of the step before are closed
\* and every opened earlier step had its terminal status queried once, with
\* success; a step's status is queried at most once, and only when both of
\* its sources are closed.
C16_StrictlySequential ==
    [][/\ idx' \in {idx, idx + 1}
       /\ \A j \in StepIdx :
              hist'[j].opens > hist[j].opens =>
                  /\ j = idx
                  /\ hist[j].opens = 0
                  /\ podC = Nil /\ perrC = Nil
                  /\ \A i \in StepIdx :
                         (i < j /\ hist[i].opens > 0) =>
                             hist[i].statusQueries = 1 /\ ~hist[i].statusFailed
       /\ \A i \in StepIdx :
              hist'[i].statusQueries > hist[i].statusQueries =>
                  /\ i = idx
                  /\ hist[i].statusQueries = 0
                  /\ hist[i].opens = 1
                  /\ podC = Nil /\ perrC = Nil
      ]_vars

\* C16 witness: step 1 was read and its status queried, and step 2's
\* stream is open.
C16_Witness ==
    /\ Len(steps) >= 2
    /\ hist[1].opens = 1
    /\ hist[1].statusQueries = 1
    /\ hist[2].opens = 1
    /\ idx = 2
    /\ pc = "select"
    /\ podC # Nil /\ perrC # Nil

\* C17: each error received from a step's error source gives exactly one
\* Error Record, wrapped with the step's name; after it the select goes on
\* with both sources as they were, so the later log lines and the sentinel
\* are still forwarded and later steps are still visited; the closing of
\* the error source gives no Error Record.
C17_StreamErrorIsolated ==
    /\ [](\A i \in StepIdx :
            /\ Len(ErrsOfKind(i, "sendErr")) =
                   hist[i].errs - (IF idx = i /\ pc = "sendErr" THEN 1 ELSE 0)
            /\ \A k \in 1..Len(ErrsOfKind(i, "sendErr")) :
                   \E e \in StreamErrs :
                       ErrsOfKind(i, "sendErr")[k].rec =
                           [Error |-> <<"failed to get logs for ", steps[i].name, ": ", e>>]
            /\ Drained(i) => Len(LogsAt(i)) = Len(hist[i].lines) + 1
            /\ (pc = "done" /\ hist[i].errs > 0) =>
                   \A j \in StepIdx : (j > i /\ NoAbortBetween(i - 1, j)) => Visited(j))
    /\ [][/\ (pc = "sendErr" /\ pc' # "sendErr") =>
                 /\ pc' = "select"
                 /\ idx' = idx
                 /\ perrC # Nil
                 /\ podC' = podC /\ perrC' = perrC
                 /\ Len(errOut') = Len(errOut) + 1
          /\ (perrC # Nil /\ perrC' = Nil) =>
                 /\ errOut' = errOut
                 /\ pending = NoSend /\ pending' = NoSend
         ]_vars

\* C17 witness: step 1 had an error from its error source and a log line,
\* both were received with the sentinel, and step 2 was opened.
C17_Witness ==
    /\ pc = "done"
    /\ Len(steps) >= 2
    /\ hist[1].errs = 1
    /\ Len(ErrsOfKind(1, "sendErr")) = 1
    /\ Len(hist[1].lines) = 1
    /\ Len(LogsAt(1)) = 2
    /\ hist[2].opens = 1

\* C18: the Log Records of an opened step are the lines of its log source,
\* in their order, none lost or doubled, each tagged with the task name and
\* the step's name, and, once the sources are drained, the sentinel after
\* them; before that at most the line in the blocked send is missing.
C18_LogRecordsAreSourceLines ==
    \A i \in StepIdx :
        LET want == LinesAsRecords(i, hist[i].lines)
            got == RecsOf(LogsAt(i))
            last == [Task |-> TaskName, Step |-> steps[i].name, Log |-> "EOFLOG"]
        IN  IF Drained(i) THEN got = Append(want, last)
            ELSE IF idx = i /\ pc = "sendLog" THEN got = SubSeq(want, 1, Len(want) - 1)
            ELSE IF idx = i /\ podC = Nil /\ hist[i].opens > 0 /\ pc # "sendEOF"
                 THEN got = Append(want, last)
            ELSE got = want

\* C18 witness: step 1's source delivered two lines, the second one the
\* text "EOFLOG"; both and the sentinel were received and the goroutine has
\* ended.
C18_Witness ==
    /\ pc = "done"
    /\ Len(steps) >= 1
    /\ hist[1].lines = <<"ok", "EOFLOG">>
    /\ Len(LogsAt(1)) = 3

\* C19: the channels buffer nothing: while a record is in a send the
\* goroutine stays in that send and no channel is closed, and the only step
\* that can follow is the consumer receiving that record from the channel it
\* is sent on; no source item is taken and no step is opened meanwhile.
C19_Backpressure ==
    /\ [](pending # NoSend => /\ SendingLog \/ SendingErr
                              /\ ~logClosed /\ ~errClosed)
    /\ []((SendingLog \/ SendingErr) => pending # NoSend)
    /\ [][pending # NoSend =>
             /\ pending' = NoSend
             /\ IF SendingLog
                THEN /\ logOut' = Append(logOut, [at |-> idx, rec |-> pending])
                     /\ errOut' = errOut
                ELSE /\ errOut' = Append(errOut, [at |-> idx, kind |-> pc, rec |-> pending])
                     /\ logOut' = logOut
             /\ hist' = hist
             /\ podC' = podC /\ perrC' = perrC
             /\ logClosed' = logClosed /\ errClosed' = errClosed
         ]_vars

\* C19 witness: a Log Record is in the blocked send after another one was
\* received.
C19_Witness ==
    /\ pc = "sendLog"
    /\ pending # NoSend
    /\ Len(logOut) >= 1
    /\ podC # Nil /\ perrC # Nil

\* C20: errC is closed before logC, nothing is sent on a closed channel,
\* and when logC is closed errC is closed and every Error Record the loop
\* produced has been received.
C20_ErrChannelClosedFirst ==
    /\ [](logClosed => errClosed)
    /\ []((logClosed \/ errClosed) =>
             /\ pending = NoSend
             /\ pc \in {"exit2", "done"}
             /\ Len(errOut) = ErrsProduced(Len(steps)))
    /\ [][/\ errClosed => (errClosed' /\ errOut' = errOut)
          /\ logClosed => (logClosed' /\ logOut' = logOut /\ errOut' = errOut)
         ]_vars

\* C20 witness: errC is closed, logC is not yet, and Error Records were
\* received.
C20_Witness ==
    /\ pc = "exit2"
    /\ errClosed
    /\ ~logClosed
    /\ Len(errOut) >= 2

\* ---------------------------------------------------------- filterSteps
\* pod.Spec.Containers[i].Name, pod.Spec.InitContainers[i].Name and the
\* names a caller may ask for
ContainerNames == {"step-build", "step-test", "test"}
InitContainerNames == {"step-init-git", "place-tools"}
WantedNames == {"build", "test", "init-git"}

\* the states a ContainerStatus reports; a container without a status has
\* the zero ContainerState
ReportedStates == ContainerStates \ {"zero"}

\* the lists of at most n names, none twice (container names are unique
\* within a pod)
NoDupSeqs(S, n) ==
    {s \in SeqsUpTo(S, n) : \A i, j \in 1..Len(s) : s[i] = s[j] => i = j}

\* the status lists of a list of containers: each container has one status
\* or none yet
RECURSIVE StatusLists(_)
StatusLists(names) ==
    IF names = << >> THEN {<< >>}
    ELSE LET rest == StatusLists(Tail(names))
         IN  rest \cup {<<[Name |-> Head(names), State |-> st]>> \o r :
                          r \in rest, st \in ReportedStates}

\* corev1.Pod: Spec.InitContainers, Spec.Containers,
\* Status.InitContainerStatuses, Status.ContainerStatuses
Pods ==
    UNION {
      {[InitContainers |-> ics, Containers |-> cs,
        InitContainerStatuses |-> iss, ContainerStatuses |-> css] :
          iss \in StatusLists(ics), css \in StatusLists(cs)} :
      ics \in NoDupSeqs(InitContainerNames, MaxInit),
      cs \in NoDupSeqs(ContainerNames, MaxSteps) \ {<< >>}}

\* strings.TrimPrefix(s, prefix)
TrimPrefix(s, prefix) ==
    IF Len(s) >= Len(prefix) /\ SubSeq(s, 1, Len(prefix)) = prefix
    THEN SubSeq(s, Len(prefix) + 1, Len(s))
    ELSE s

\* status := map[string]corev1.ContainerState{}; status[cs.Name] = cs.State
\* for each status in turn; status[name] is the zero value if absent
StatusOf(statuses, name) ==
    LET hits == {k \in 1..Len(statuses) : statuses[k].Name = name}
    IN  IF hits = {} THEN "zero"
        ELSE statuses[CHOOSE k \in hits : \A h \in hits : h <= k].State

\* &step{name: strings.TrimPrefix(c.Name, "step-"), container: c.Name,
\*       state: status[c.Name]}
StepOf(cname, statuses) ==
    [name |-> TrimPrefix(cname, "step-"),
     container |-> cname,
     state |-> StatusOf(statuses, cname)]

\* func getInitSteps(pod *corev1.Pod) []*step
getInitSteps(pod) ==
    [k \in 1..Len(pod.InitContainers) |->
        StepOf(pod.InitContainers[k], pod.InitContainerStatuses)]

\* func getSteps(pod *corev1.Pod) []*step
getSteps(pod) ==
    [k \in 1..Len(pod.Containers) |->
        StepOf(pod.Containers[k], pod.ContainerStatuses)]

\* stepsToAdd[s] = true for each s of stepsGiven; stepsToAdd[name]
stepsToAdd(stepsGiven, name) ==
    \E k \in 1..Len(stepsGiven) : stepsGiven[k] = name

\* mutant of filterSteps: the init steps are appended after the steps
filterStepsInitLast(pod, allSteps, stepsGiven) ==
    LET stepsInPod == getSteps(pod)
        init == IF allSteps THEN getInitSteps(pod) ELSE << >>
    IN  IF Len(stepsGiven) = 0 THEN stepsInPod \o init
        ELSE SelectSeq(stepsInPod, LAMBDA sp : stepsToAdd(stepsGiven, sp.name))
               \o init

\* the steps of ss named as the names of stepsGiven, in stepsGiven's order
RECURSIVE InWantedOrder(_, _)
InWantedOrder(ss, stepsGiven) ==
    IF stepsGiven = << >> THEN << >>
    ELSE SelectSeq(ss, LAMBDA sp : sp.name = Head(stepsGiven))
           \o InWantedOrder(ss, Tail(stepsGiven))

\* mutant of filterSteps: the loop ranges over stepsGiven, not stepsInPod
filterStepsWantedOrder(pod, allSteps, stepsGiven) ==
    LET stepsInPod == getSteps(pod)
        init == IF allSteps THEN getInitSteps(pod) ELSE << >>
    IN  IF Len(stepsGiven) = 0 THEN init \o stepsInPod
        ELSE init \o InWantedOrder(stepsInPod, stepsGiven)

\* mutant of filterSteps: the init steps are filtered by stepsGiven too
filterStepsInitFiltered(pod, allSteps, stepsGiven) ==
    LET stepsInPod == getSteps(pod)
        init == IF allSteps THEN getInitSteps(pod) ELSE << >>
    IN  IF Len(stepsGiven) = 0 THEN init \o stepsInPod
        ELSE SelectSeq(init \o stepsInPod,
                       LAMBDA sp : stepsToAdd(stepsGiven, sp.name))

\* func filterSteps(pod *corev1.Pod, allSteps bool, stepsGiven []string) []*step
filterSteps(pod, allSteps, stepsGiven) ==
    LET stepsInPod == getSteps(pod)
        init == IF allSteps THEN getInitSteps(pod) ELSE << >>
    IN  IF Len(stepsGiven) = 0 THEN init \o stepsInPod
        ELSE init \o SelectSeq(stepsInPod,
                               LAMBDA sp : stepsToAdd(stepsGiven, sp.name))

\* the lists of names a caller may ask for (lr.Steps)
WantedLists == SeqsUpTo(WantedNames, MaxWanted)

FilterInit ==
    /\ MuxIdle
    /\ WaitIdle
    /\ ReadIdle
    /\ fpc = "call"
    /\ \E p \in Pods, a \in BOOLEAN, w \in WantedLists :
           fin = [pod |-> p, allSteps |-> a, stepsGiven |-> w]
    /\ fres = << >>

\* steps := filterSteps(pod, lr.AllSteps, lr.Steps)
FilterCall ==
    /\ fpc = "call"
    /\ fres' = filterSteps(fin.pod, fin.allSteps, fin.stepsGiven)
    /\ fpc' = "done"
    /\ UNCHANGED fin
    /\ UNCHANGED <<muxVars, waitVars, readVars>>

FilterNext == FilterCall

FilterSpec == FilterInit /\ [][FilterNext]_vars

\* ----------------------------------------------- claims on filterSteps
\* the step a container of the pod declares: its name without "step-",
\* its state as the pod reports it
DeclaredName ==
    [c \in ContainerNames \cup InitContainerNames |->
        CASE c = "step-build" -> "build"
          [] c = "step-test" -> "test"
          [] c = "test" -> "test"
          [] c = "step-init-git" -> "init-git"
          [] c = "place-tools" -> "place-tools"]

DeclaredState(statuses, c) ==
    IF \E k \in 1..Len(statuses) : statuses[k].Name = c
    THEN (CHOOSE st \in ReportedStates :
            \E k \in 1..Len(statuses) : statuses[k] = [Name |-> c, State |-> st])
    ELSE "zero"

DeclaredSteps(names, statuses) ==
    [k \in 1..Len(names) |->
        [name |-> DeclaredName[names[k]],
         container |-> names[k],
         state |-> DeclaredState(statuses, names[k])]]

DeclaredInit == DeclaredSteps(fin.pod.InitContainers, fin.pod.InitContainerStatuses)
DeclaredMain == DeclaredSteps(fin.pod.Containers, fin.pod.ContainerStatuses)
Wanted == {fin.stepsGiven[k] : k \in 1..Len(fin.stepsGiven)}
FilterDone == fpc = "done"

\* C13: with an empty wanted list the result is the pod's declared steps in
\* declaration order, preceded by the init steps in declaration order if and
\* only if allSteps is true.
C13_EmptyWantedAllDeclared ==
    (FilterDone /\ Len(fin.stepsGiven) = 0) =>
        fres = (IF fin.allSteps THEN DeclaredInit ELSE << >>) \o DeclaredMain

\* C13 witness: an empty wanted list, allSteps, two init steps and two
\* steps: the result is the four of them, the init steps first.
C13_Witness ==
    /\ FilterDone
    /\ Len(fin.stepsGiven) = 0
    /\ fin.allSteps
    /\ fin.pod.InitContainers = <<"place-tools", "step-init-git">>
    /\ Len(fin.pod.Containers) = 2
    /\ Len(fres) = 4
    /\ fres[1].container = "place-tools"
    /\ fres[2].container = "step-init-git"

\* C14: with a non-empty wanted list and allSteps false the result is the
\* declared steps whose name occurs in wanted, each once, in declaration
\* order, whatever the order and the duplicates of wanted; names that match
\* no step are ignored, so the result may be empty.
C14_WantedIntersection ==
    (FilterDone /\ Len(fin.stepsGiven) > 0 /\ ~fin.allSteps) =>
        fres = SelectSeq(DeclaredMain, LAMBDA sp : sp.name \in Wanted)

\* C14 witness: wanted names the two steps in the reverse of the pod's order.
C14_Witness ==
    /\ FilterDone
    /\ ~fin.allSteps
    /\ fin.stepsGiven = <<"test", "build">>
    /\ fin.pod.Containers = <<"step-build", "step-test">>
    /\ Len(fres) = 2

\* C15: with allSteps true and a non-empty wanted list every init step is
\* in the result, in declaration order and before every other step, whether
\* wanted names it or not; only the other steps are filtered by wanted.
C15_InitStepsUnfiltered ==
    (FilterDone /\ Len(fin.stepsGiven) > 0 /\ fin.allSteps) =>
        fres = DeclaredInit \o SelectSeq(DeclaredMain, LAMBDA sp : sp.name \in Wanted)

\* C15 witness: init steps init-git and place-tools, steps build and test,
\* wanted test: the result is init-git, place-tools, test.
C15_Witness ==
    /\ FilterDone
    /\ fin.allSteps
    /\ fin.stepsGiven = <<"test">>
    /\ fin.pod.InitContainers = <<"step-init-git", "place-tools">>
    /\ fin.pod.Containers = <<"step-build", "step-test">>
    /\ Len(fres) = 3
    /\ fres[1].name = "init-git"
    /\ fres[2].name = "place-tools"
    /\ fres[3].name = "test"

\* ------------------------------------------------------------------ Read
\* lr.Run, the names of pods, task labels and task references, lr.Number
RunName == "run-1"
PodNames == {"", "pod-1"}
PipelineTaskLabels == {Nil, "pipeline-task"}
TaskRefNames == {Nil, "ref-task"}
Number == 1
PodErrs == {"pods not found", "\f pods not found  \n", " \t"}
msgTRNotFoundErr == "msgTRNotFoundErr"

\* v1alpha1.TaskRun as Read uses it: Name, HasStarted(), Status.PodName,
\* Status.Conditions, Labels["tekton.dev/pipelineTask"] (Nil if absent),
\* Spec.TaskRef (Nil, or its Name)
ReadRuns ==
    {[name |-> RunName, started |-> st, podName |-> p, conds |-> c,
      label |-> l, taskRef |-> t] :
        st \in BOOLEAN, p \in PodNames, c \in SeqsUpTo(Conditions, MaxConds),
        l \in PipelineTaskLabels, t \in TaskRefNames}

\* the fields of the LogReader that Read reads; Stream is Nil or a stream
LogReaders ==
    {[Task |-> t, Follow |-> f, AllSteps |-> a, Stream |-> s, Steps |-> w] :
        t \in {"", TaskName}, f \in BOOLEAN, a \in BOOLEAN,
        s \in {Nil, "stream"}, w \in {<< >>, <<"test">>}}

\* the pods that p.Get() and p.Wait() return
ReadPods ==
    {[InitContainers |-> <<"step-init-git">>,
      Containers |-> <<"step-build", "step-test">>,
      InitContainerStatuses |-> << >>,
      ContainerStatuses |-> css] :
        css \in {l \in StatusLists(<<"step-build", "step-test">>) : Len(l) = 2}}

\* fmt.Errorf("%s: %s", msgTRNotFoundErr, err)
NotFoundErr(e) == <<msgTRNotFoundErr, ": ">> \o e

\* fmt.Errorf("task %s has not started yet", lr.Task)
NotStartedErr(taskName) == <<"task ", taskName, " has not started yet">>

\* fmt.Errorf("pod for taskrun %s not available yet", tr.Name)
PodNotAvailableErr(name) == <<"pod for taskrun ", name, " not available yet">>

\* the white space strings.TrimSpace cuts (unicode.IsSpace): space, \t, \n,
\* \v, \f, \r, U+0085, U+00A0 and U+1680; the other white space of Unicode
\* (U+2000 to U+200A, U+2028, U+2029, U+202F, U+205F, U+3000) cannot occur
\* in a string of the model
WhiteSpace == {" ", "\t", "\n", "", "\f", "\r", "", " ", " "}

\* strings.TrimSpace(s): s without its leading and trailing white space
RECURSIVE TrimLeft(_)
TrimLeft(s) ==
    IF Len(s) > 0 /\ SubSeq(s, 1, 1) \in WhiteSpace
    THEN TrimLeft(SubSeq(s, 2, Len(s)))
    ELSE s

RECURSIVE TrimRight(_)
TrimRight(s) ==
    IF Len(s) > 0 /\ SubSeq(s, Len(s), Len(s)) \in WhiteSpace
    THEN TrimRight(SubSeq(s, 1, Len(s) - 1))
    ELSE s

TrimSpace(s) == TrimRight(TrimLeft(s))

\* errors.New(fmt.Sprintf("task %s failed: %s. Run tkn tr desc %s for more details.",
\*                        lr.Task, strings.TrimSpace(err.Error()), tr.Name))
PodErr(taskName, e, name) ==
    <<"task ", taskName, " failed: ", TrimSpace(e), ". Run tkn tr desc ", name,
      " for more details.">>

\* fmt.Errorf("task %s create has not started yet or pod for task not yet available", lr.Task)
WaitTimeoutErr(taskName) ==
    <<"task ", taskName,
      " create has not started yet or pod for task not yet available">>

\* the errors lr.waitUntilPodNameAvailable(10) returns
WaitErrs(taskName) ==
    {GetErr, WatchErr, WaitTimeoutErr(taskName)}
        \cup {FailedErr(taskName, c.Message) : c \in Conditions}

\* the runs lr.waitUntilPodNameAvailable(10) returns for the run r: a run
\* with a pod name; readLiveLogs reads its Name and Status.PodName only
WaitedRuns(r) == {[r EXCEPT !.podName = p] : p \in PodNames \ {""}}

\* func (lr *LogReader) formTaskName(tr *v1alpha1.TaskRun): the new lr.Task
formTaskName(lrTask, r) ==
    IF lrTask # "" THEN lrTask
    ELSE IF r.label # Nil THEN r.label
    ELSE IF r.taskRef # Nil THEN r.taskRef
    ELSE "Task " \o ToString(Number)

\* mutant of readAvailablePre: the pod name is checked before the failure
readAvailablePrePodFirst(r, taskName) ==
    IF ~r.started THEN [err |-> NotStartedErr(taskName), write |-> FALSE]
    ELSE IF r.podName = ""
    THEN [err |-> PodNotAvailableErr(r.name), write |-> FALSE]
    ELSE IF hasTaskRunFailed(r.conds, taskName) # NoErr
    THEN [err |-> hasTaskRunFailed(r.conds, taskName), write |-> TRUE]
    ELSE [err |-> NoErr, write |-> FALSE]

\* the checks of readAvailableLogs before the pod is fetched: the error
\* returned, and whether it is written to lr.Stream.Err if lr.Stream != nil
readAvailablePre(r, taskName) ==
    IF ~r.started THEN [err |-> NotStartedErr(taskName), write |-> FALSE]
    ELSE IF hasTaskRunFailed(r.conds, taskName) # NoErr
    THEN [err |-> hasTaskRunFailed(r.conds, taskName), write |-> TRUE]
    ELSE IF r.podName = ""
    THEN [err |-> PodNotAvailableErr(r.name), write |-> FALSE]
    ELSE [err |-> NoErr, write |-> FALSE]

\* mutant of ErrorReturn: the channels are returned with the error
ErrorReturnLive(e) ==
    [returned |-> TRUE, logC |-> "live", errC |-> "live", err |-> e]

\* return nil, nil, err
ErrorReturn(e) ==
    [returned |-> TRUE, logC |-> Nil, errC |-> Nil, err |-> e]

\* return logC, errC, err
ChannelsReturn(e) ==
    [returned |-> TRUE, logC |-> "live", errC |-> "live", err |-> e]

\* logC, errC := lr.readStepsLogs(steps, p, lr.Follow): the channels are
\* made and the goroutine is started
readStepsLogsStart(ss, f) ==
    /\ steps' = ss
    /\ follow' = f
    /\ idx' = 1
    /\ pc' = "for"
    /\ podC' = Nil
    /\ perrC' = Nil
    /\ pending' = NoSend
    /\ logOut' = << >>
    /\ errOut' = << >>
    /\ logClosed' = FALSE
    /\ errClosed' = FALSE
    /\ hist' = [i \in 1..Len(ss) |-> HistZero]
    /\ goroutines' = goroutines + 1

ReadInit ==
    /\ MuxIdle
    /\ WaitIdle
    /\ FilterIdle
    /\ rpc = "get"
    /\ cfg \in LogReaders
    /\ tr = NilRun
    /\ task = cfg.Task
    /\ sideOut = << >>
    /\ goroutines = 0
    /\ rres = NoResult

\* tr, err := tkn...Get(lr.Run, ...) with err == nil; lr.formTaskName(tr);
\* return lr.readLogs(tr)
ReadGet ==
    /\ rpc = "get"
    /\ \E r \in ReadRuns :
         /\ tr' = r
         /\ task' = formTaskName(task, r)
    /\ rpc' = (IF cfg.Follow THEN "live" ELSE "available")
    /\ UNCHANGED <<cfg, sideOut, goroutines, rres>>
    /\ UNCHANGED <<muxVars, waitVars, filterVars>>

\* tr, err := tkn...Get(lr.Run, ...) with err != nil
ReadGetFails ==
    /\ rpc = "get"
    /\ rres' = ErrorReturn(NotFoundErr(GetErr))
    /\ rpc' = "done"
    /\ UNCHANGED <<cfg, tr, task, sideOut, goroutines>>
    /\ UNCHANGED <<muxVars, waitVars, filterVars>>

\* readAvailableLogs: one of the checks before the pod is fetched fails
ReadAvailableRejects ==
    /\ rpc = "available"
    /\ LET pre == readAvailablePre(tr, task)
       IN  /\ pre.err # NoErr
           /\ sideOut' = (IF pre.write /\ cfg.Stream # Nil
                          THEN Append(sideOut, pre.err \o <<"\n">>)
                          ELSE sideOut)
           /\ rres' = ErrorReturn(pre.err)
    /\ rpc' = "done"
    /\ UNCHANGED <<cfg, tr, task, goroutines>>
    /\ UNCHANGED <<muxVars, waitVars, filterVars>>

\* readAvailableLogs: pod, err := p.Get() with err != nil
ReadAvailablePodFails ==
    /\ rpc = "available"
    /\ readAvailablePre(tr, task).err = NoErr
    /\ \E e \in PodErrs : rres' = ErrorReturn(PodErr(task, e, tr.name))
    /\ rpc' = "done"
    /\ UNCHANGED <<cfg, tr, task, sideOut, goroutines>>
    /\ UNCHANGED <<muxVars, waitVars, filterVars>>

\* readAvailableLogs: the pod is fetched, the steps are resolved, the
\* goroutine is started; return logC, errC, nil
ReadAvailableStarts ==
    /\ rpc = "available"
    /\ readAvailablePre(tr, task).err = NoErr
    /\ \E pod \in ReadPods :
         readStepsLogsStart(filterSteps(pod, cfg.AllSteps, cfg.Steps), cfg.Follow)
    /\ rres' = ChannelsReturn(NoErr)
    /\ rpc' = "done"
    /\ UNCHANGED <<cfg, tr, task, sideOut>>
    /\ UNCHANGED <<waitVars, filterVars>>

\* readLiveLogs: tr, err := lr.waitUntilPodNameAvailable(10) with err != nil
ReadLiveWaitFails ==
    /\ rpc = "live"
    /\ \E e \in WaitErrs(task) : rres' = ErrorReturn(e)
    /\ rpc' = "done"
    /\ UNCHANGED <<cfg, tr, task, sideOut, goroutines>>
    /\ UNCHANGED <<muxVars, waitVars, filterVars>>

\* readLiveLogs: lr.waitUntilPodNameAvailable(10) panics on an event that
\* carries no run; Read does not return
ReadLiveWaitPanics ==
    /\ rpc = "live"
    /\ rpc' = "panic"
    /\ UNCHANGED <<cfg, tr, task, sideOut, goroutines, rres>>
    /\ UNCHANGED <<muxVars, waitVars, filterVars>>

\* readLiveLogs: tr, err := lr.waitUntilPodNameAvailable(10) with err == nil
ReadLiveWaited ==
    /\ rpc = "live"
    /\ tr' \in WaitedRuns(tr)
    /\ rpc' = "livepod"
    /\ UNCHANGED <<cfg, task, sideOut, goroutines, rres>>
    /\ UNCHANGED <<muxVars, waitVars, filterVars>>

\* readLiveLogs: pod, err := p.Wait() with err != nil
ReadLivePodFails ==
    /\ rpc = "livepod"
    /\ \E e \in PodErrs : rres' = ErrorReturn(PodErr(task, e, tr.name))
    /\ rpc' = "done"
    /\ UNCHANGED <<cfg, tr, task, sideOut, goroutines>>
    /\ UNCHANGED <<muxVars, waitVars, filterVars>>

\* readLiveLogs: the pod is there, the steps are resolved, the goroutine is
\* started; return logC, errC, err where err is the nil of p.Wait()
ReadLiveStarts ==
    /\ rpc = "livepod"
    /\ \E pod \in ReadPods :
         readStepsLogsStart(filterSteps(pod, cfg.AllSteps, cfg.Steps), cfg.Follow)
    /\ rres' = ChannelsReturn(NoErr)
    /\ rpc' = "done"
    /\ UNCHANGED <<cfg, tr, task, sideOut>>
    /\ UNCHANGED <<waitVars, filterVars>>

ReadNext ==
    \/ ReadGet
    \/ ReadGetFails
    \/ ReadAvailableRejects
    \/ ReadAvailablePodFails
    \/ ReadAvailableStarts
    \/ ReadLiveWaitFails
    \/ ReadLiveWaitPanics
    \/ ReadLiveWaited
    \/ ReadLivePodFails
    \/ ReadLiveStarts

ReadSpec == ReadInit /\ [][ReadNext]_vars

\* ------------------------------------------------------- claims on Read
ReadReturned == rpc = "done" /\ rres.returned
AvailableReturned == ReadReturned /\ ~cfg.Follow /\ tr # NilRun

\* C11: readAvailableLogs returns the error of the first check that
\* applies, in the order not started, failed, pod name empty; a run that
\* has started and failed yields the 'has failed' error, written once to
\* the side channel if a stream is set, whatever its pod name.
C11_PreconditionOrder ==
    AvailableReturned =>
        IF ~tr.started
        THEN /\ rres.err = <<"task ", task, " has not started yet">>
             /\ sideOut = << >>
        ELSE IF FirstCondFalse(tr)
        THEN /\ rres.err = <<"task ", task, " has failed: ", tr.conds[1].Message>>
             /\ sideOut = (IF cfg.Stream # Nil
                           THEN <<rres.err \o <<"\n">>>>
                           ELSE << >>)
        ELSE IF tr.podName = ""
        THEN /\ rres.err = <<"pod for taskrun ", tr.name, " not available yet">>
             /\ sideOut = << >>
        ELSE /\ \/ rres.err = NoErr
                \/ rres.err[3] = " failed: "
             /\ sideOut = << >>

\* C11 witness: a started, failed run without a pod name was read with a
\* stream set: the 'has failed' error is returned and written once.
C11_Witness ==
    /\ AvailableReturned
    /\ tr.started
    /\ FirstCondFalse(tr)
    /\ tr.podName = ""
    /\ cfg.Stream # Nil
    /\ Len(sideOut) = 1
    /\ rres.err[3] = " has failed: "

\* C12: Read returns either an error with no channels and no goroutine
\* started, or the two channels with a nil error and exactly one goroutine
\* started; a goroutine is started only by a Read that returns channels.
C12_ErrorXorChannels ==
    /\ ~rres.returned => (goroutines = 0 /\ pc = "idle")
    /\ rres.returned =>
         \/ /\ rres.err # NoErr
            /\ rres.logC = Nil
            /\ rres.errC = Nil
            /\ goroutines = 0
            /\ pc = "idle"
         \/ /\ rres.err = NoErr
            /\ rres.logC # Nil
            /\ rres.errC # Nil
            /\ goroutines = 1
            /\ pc = "for"
    /\ (ReadReturned /\ tr = NilRun) => rres.err # NoErr
    /\ (AvailableReturned /\ (~tr.started \/ FirstCondFalse(tr) \/ tr.podName = ""))
         => rres.err # NoErr

\* C12 witness: a follow Read whose wait for the pod failed returned an
\* error.
C12_Witness ==
    /\ ReadReturned
    /\ cfg.Follow
    /\ tr # NilRun
    /\ tr.podName # ""
    /\ Len(rres.err) > 3
    /\ rres.err[3] = " failed: "
    /\ rres.logC = Nil
    /\ goroutines = 0

\* ---------------------------------------------------------- claim C21
\* C21: the Waiter never crashes: it ends by returning either a run with a
\* non-empty pod name or an error, and once the watch has been opened the
\* subscription is stopped exactly once before the return, also when the
\* event stream is closed or delivers an event that carries no run.
C21_WaiterOutcomeTotal ==
    /\ wpc # "panic"
    /\ watchStops <= watchOpens
    /\ wpc = "returned" =>
         /\ \/ /\ wres.err = NoErr
               /\ wres.run # NilRun
               /\ wres.run.podName # ""
            \/ /\ wres.err # NoErr
               /\ wres.run = NilRun
         /\ watchStops = watchOpens

====
